---- MODULE Spec2Model ----
(***************************************************************************)
(* A model of the S-expression parser of src/main.rs: tokenize (a lazy     *)
(* flat_map over the input's characters chained with one space),           *)
(* parse_tokens (a stack of open contexts over a dummy root context) and   *)
(* the Display implementations that render a tree back to text.            *)
(*                                                                         *)
(* A character is a one-character string; a text (Rust String / &str) is   *)
(* a sequence of characters.                                               *)
(***************************************************************************)
EXTENDS Integers, Sequences, FiniteSets, TLC

VARIABLES
    input,       \* the text handed to the first parse call
    expr,        \* the argument of the running parse call
    pos,         \* characters of expr.chars().chain([' ']) already scanned
    curr_token,  \* tokenize's buffer
    pending,     \* tokens the flat_map closure returned, not yet taken by the for loop
    tokens,      \* every token the iterator has yielded so far, in order
    contexts,    \* parse_tokens' stack of contexts
    pc,          \* "run", "done" (parse returned), "rendered" (to_string returned)
    result,      \* what parse returned
    output,      \* what to_string returned
    round,       \* 1: parse(input); 2: parse(render(e)) of the first call's tree
    first        \* the first call's result

vars == <<input, expr, pos, curr_token, pending, tokens, contexts, pc, result,
          output, round, first>>

----------------------------------------------------------------------------
(* Bounds of the model *)

\* Inputs of every length up to MaxLen over Alphabet are tried.
MaxLen == 4

\* A u32 is held as two 16-bit limbs <<hi, lo>>, its value hi * 2^16 + lo, so
\* that every intermediate value of the arithmetic stays a small integer.
\* A u32 overflows exactly when its high limb reaches LimbBase.
LimbBase == 65536

Alphabet == {"(", ")", " ", "a", "0", "1", "+", "-", "\t"}

Digits == {"0", "1", "2", "3", "4", "5", "6", "7", "8", "9"}

DigitVal(c) ==
    CASE c = "0" -> 0 [] c = "1" -> 1 [] c = "2" -> 2 [] c = "3" -> 3
      [] c = "4" -> 4 [] c = "5" -> 5 [] c = "6" -> 6 [] c = "7" -> 7
      [] c = "8" -> 8 [] c = "9" -> 9

DigitChar(d) ==
    CASE d = 0 -> "0" [] d = 1 -> "1" [] d = 2 -> "2" [] d = 3 -> "3"
      [] d = 4 -> "4" [] d = 5 -> "5" [] d = 6 -> "6" [] d = 7 -> "7"
      [] d = 8 -> "8" [] d = 9 -> "9"

\* Longer inputs tried besides the enumerated ones: the spec's examples, the
\* u32 boundary, nesting and separators that need more than MaxLen characters.
LongInputs ==
    { <<"(", "f", " ", "(", "l", " ", "1", " ", "(", "+", " ", "2", " ", "3", ")", " ", "9", ")", ")">>,
      <<"4", "2", "9", "4", "9", "6", "7", "2", "9", "5">>,
      <<"4", "2", "9", "4", "9", "6", "7", "2", "9", "6">>,
      <<"4", "2", "9", "4", "9", "6", "7", "3", "0", "0">>,
      <<"0", "4", "2", "9", "4", "9", "6", "7", "2", "9", "5">>,
      <<"+", "4", "2", "9", "4", "9", "6", "7", "2", "9", "5">>,
      <<"+", "4", "2", "9", "4", "9", "6", "7", "2", "9", "6">>,
      <<"9", "9", "9", "9", "9", "9", "9", "9", "9", "9", "9">>,
      <<"(", "4", "2", " ", "-", "4", "2", " ", "+", "4", "2", " ", "0", "0", "7", ")">>,
      <<"(", "a", " ", "(", "b", ")">>,
      <<"(", "(", "a", ")", "(", "b", ")", ")">>,
      <<"(", "(", ")", " ", "(", ")", ")">>,
      <<"(", "a", " ", " ", "b", ")">>,
      <<" ", "(", " ", "a", " ", ")", " ">>,
      <<"(", "a", "\t", "b", "\n", "c", ")">>,
      <<"(", "a", " ", "b", ")", ")", " ", "(">>,
      <<"(", "(", "(", "a", ")", " ", "1", ")", " ", "b", ")">>,
      <<"a", "1", " ", "1", "a">> }

RECURSIVE SeqsUpTo(_)
SeqsUpTo(n) ==
    IF n = 0 THEN {<<>>}
    ELSE LET S == SeqsUpTo(n - 1)
         IN  S \cup {Append(s, c) : s \in {t \in S : Len(t) = n - 1}, c \in Alphabet}

Inputs == SeqsUpTo(MaxLen) \cup LongInputs

----------------------------------------------------------------------------
(* Data model: Expr, Atom, Token *)

Ident(name) == [tag |-> "Ident", val |-> name]
Num(x) == [tag |-> "Num", val |-> x]
ExprAtom(a) == [tag |-> "Atom", val |-> a]
Group(sub_exprs) == [tag |-> "Group", val |-> sub_exprs]

Lparen == [tag |-> "Lparen", val |-> <<>>]
Rparen == [tag |-> "Rparen", val |-> <<>>]
TokenAtom(a) == [tag |-> "Atom", val |-> a]

\* Result<Expr>: Ok(expr), or an anyhow error with its message and the
\* number the message is formatted with.
Ok(e) == [kind |-> "Ok", val |-> e, n |-> 0]
Err(msg, k) == [kind |-> "Err", val |-> msg, n |-> k]
NoResult == [kind |-> "None", val |-> <<>>, n |-> 0]

UnbalancedParen == Err("unexpected closing paren", 0)
UnclosedParen(k) == Err("unclosed open paren(s)", k)
WrongTopLevelCount(k) == Err("expected 1 top-level expression, found", k)

----------------------------------------------------------------------------
(* Atom::new: s.parse::<u32>() *)

\* acc * 10 + d on limbs; the high limb of the result is >= LimbBase exactly
\* when the u32 computation overflows (checked_mul / checked_add fail).
MulAdd(acc, d) ==
    LET lo == acc[2] * 10 + d
        hi == acc[1] * 10 + (lo \div LimbBase)
    IN  <<hi, lo % LimbBase>>

ParseErr == <<-1, 0>>

\* The digits' value, or ParseErr at the first character that is no decimal
\* digit (InvalidDigit) or the first overflow of u32 (PosOverflow).
RECURSIVE ParseDigits(_, _, _)
ParseDigits(s, i, acc) ==
    IF i > Len(s) THEN acc
    ELSE IF s[i] \notin Digits THEN ParseErr
    ELSE IF MulAdd(acc, DigitVal(s[i]))[1] >= LimbBase THEN ParseErr
    ELSE ParseDigits(s, i + 1, MulAdd(acc, DigitVal(s[i])))

\* u32::from_str: an empty text is an error; a lone sign is an error; one
\* leading '+' is skipped; '-' is no digit of an unsigned type.
ParseU32(s) ==
    IF s = <<>> THEN ParseErr
    ELSE IF Len(s) = 1 /\ s[1] \in {"+", "-"} THEN ParseErr
    ELSE IF s[1] = "+" THEN ParseDigits(s, 2, <<0, 0>>)
    ELSE ParseDigits(s, 1, <<0, 0>>)

AtomNew(s) ==
    IF ParseU32(s) # ParseErr THEN Num(ParseU32(s)) ELSE Ident(s)

----------------------------------------------------------------------------
(* tokenize *)

\* Chained without the trailing space.
ChainedBare(e) == e

Chained(e) == e \o <<" ">>

IsSeparator(c) == c \in {"(", ")", " "}

\* ClosureAtom without the `!curr_token.is_empty()` test.
ClosureAtomAlways(c, curr) ==
    IF IsSeparator(c) THEN <<TokenAtom(AtomNew(curr))>> ELSE <<>>

\* The `atom` the closure computes for character c with buffer curr.
ClosureAtom(c, curr) ==
    IF IsSeparator(c) /\ curr # <<>> THEN <<TokenAtom(AtomNew(curr))>> ELSE <<>>

\* The `paren` the closure computes for character c.
ClosureParen(c) ==
    CASE c = "(" -> <<Lparen>>
      [] c = ")" -> <<Rparen>>
      [] c = " " -> <<>>
      [] OTHER -> <<>>

\* ClosureBuffer with the buffer read but not taken on a flush.
ClosureBufferNoTake(c, curr) ==
    CASE c = "(" -> curr
      [] c = ")" -> curr
      [] c = " " -> curr
      [] OTHER -> Append(curr, c)

\* ClosureBuffer with the push outside the match: every character is pushed.
ClosureBufferPushAll(c, curr) ==
    Append(IF IsSeparator(c) /\ curr # <<>> THEN <<>> ELSE curr, c)

\* The buffer the closure leaves behind: taken (emptied) on a flush, and
\* pushed with every character that is none of '(' ')' ' '.
ClosureBuffer(c, curr) ==
    LET kept == IF IsSeparator(c) /\ curr # <<>> THEN <<>> ELSE curr
    IN  CASE c = "(" -> kept
          [] c = ")" -> kept
          [] c = " " -> kept
          [] OTHER -> Append(kept, c)

\* The tokens of a whole text, collected strictly.
RECURSIVE TokenizeFrom(_, _, _)
TokenizeFrom(cs, i, curr) ==
    IF i > Len(cs) THEN <<>>
    ELSE ClosureAtom(cs[i], curr) \o ClosureParen(cs[i])
           \o TokenizeFrom(cs, i + 1, ClosureBuffer(cs[i], curr))

Tokenize(e) == TokenizeFrom(Chained(e), 1, <<>>)

----------------------------------------------------------------------------
(* parse_tokens: the arms of the match *)

Top(ctxs) == ctxs[Len(ctxs)]
Pop(ctxs) == SubSeq(ctxs, 1, Len(ctxs) - 1)
PushTop(ctxs, e) == [ctxs EXCEPT ![Len(ctxs)] = Append(@, e)]

ArmLparen(ctxs) == Append(ctxs, <<>>)

\* CanClose with the bound off by one.
CanCloseRoot(ctxs) == Len(ctxs) >= 1

CanClose(ctxs) == Len(ctxs) >= 2

\* ArmRparen with the group appended to the first context, not the last.
ArmRparenToFirst(ctxs) ==
    [Pop(ctxs) EXCEPT ![1] = Append(@, Group(Top(ctxs)))]

ArmRparen(ctxs) == PushTop(Pop(ctxs), Group(Top(ctxs)))

\* ArmAtom that puts the atom in front of the top context's elements.
ArmAtomFront(ctxs, a) ==
    [ctxs EXCEPT ![Len(ctxs)] = <<ExprAtom(a)>> \o @]

ArmAtom(ctxs, a) == PushTop(ctxs, ExprAtom(a))

(* parse_tokens: the checks after the loop *)

\* AllClosed that only asks for a context to be there.
AllClosedAny(ctxs) == Len(ctxs) >= 1

AllClosed(ctxs) == Len(ctxs) = 1

\* UnclosedCount that counts the root context too.
UnclosedCountAll(ctxs) == Len(ctxs)

UnclosedCount(ctxs) == Len(ctxs) - 1

\* OneTopLevel that only asks for a non-empty root context.
SomeTopLevel(dummy_context) == Len(dummy_context) >= 1

OneTopLevel(dummy_context) == Len(dummy_context) = 1

(* parse_tokens and parse as functions of their argument *)

\* The for loop from the i-th token on with stack ctxs, then the checks
\* after the loop.
RECURSIVE ParseTokensFrom(_, _, _)
ParseTokensFrom(toks, i, ctxs) ==
    IF i > Len(toks)
    THEN IF ~AllClosed(ctxs) THEN UnclosedParen(UnclosedCount(ctxs))
         ELSE IF ~OneTopLevel(Top(ctxs)) THEN WrongTopLevelCount(Len(Top(ctxs)))
         ELSE Ok(Top(ctxs)[Len(Top(ctxs))])
    ELSE IF toks[i].tag = "Lparen" THEN ParseTokensFrom(toks, i + 1, ArmLparen(ctxs))
    ELSE IF toks[i].tag = "Rparen"
         THEN IF ~CanClose(ctxs) THEN UnbalancedParen
              ELSE ParseTokensFrom(toks, i + 1, ArmRparen(ctxs))
    ELSE ParseTokensFrom(toks, i + 1, ArmAtom(ctxs, toks[i].val))

ParseTokens(toks) == ParseTokensFrom(toks, 1, << <<>> >>)

Parse(e) == ParseTokens(Tokenize(e))

----------------------------------------------------------------------------
(* Display *)

\* x / 10 and x % 10 of a u32 on limbs (long division).
DivTen(x) ==
    LET rest == (x[1] % 10) * LimbBase + x[2]
    IN  <<x[1] \div 10, rest \div 10>>

ModTen(x) == ((x[1] % 10) * LimbBase + x[2]) % 10

\* u32's Display: the decimal digits, most significant first.
RECURSIVE DecimalDigits(_)
DecimalDigits(x) ==
    IF x[1] = 0 /\ x[2] < 10 THEN <<DigitChar(x[2])>>
    ELSE Append(DecimalDigits(DivTen(x)), DigitChar(ModTen(x)))

FmtAtom(a) ==
    IF a.tag = "Ident" THEN a.val ELSE DecimalDigits(a.val)

\* FmtSep that never writes the space.
FmtSepNever(i) == <<>>

\* FmtSep that writes the space before the first child too.
FmtSepAlways(i) == <<" ">>

FmtSep(i) == IF i # 0 THEN <<" ">> ELSE <<>>

RECURSIVE FmtExpr(_)
RECURSIVE FmtSubExprs(_, _)
\* The for loop of the Group arm from 0-based index i on.
FmtSubExprs(sub_exprs, i) ==
    IF i >= Len(sub_exprs) THEN <<>>
    ELSE FmtSep(i) \o FmtExpr(sub_exprs[i + 1]) \o FmtSubExprs(sub_exprs, i + 1)

FmtExpr(e) ==
    IF e.tag = "Group"
    THEN <<"(">> \o FmtSubExprs(e.val, 0) \o <<")">>
    ELSE FmtAtom(e.val)

----------------------------------------------------------------------------
(* The state machine *)

Init ==
    /\ input \in Inputs
    /\ expr = input
    /\ pos = 0
    /\ curr_token = <<>>
    /\ pending = <<>>
    /\ tokens = <<>>
    /\ contexts = << <<>> >>
    /\ pc = "run"
    /\ result = NoResult
    /\ output = <<>>
    /\ round = 1
    /\ first = NoResult

\* The for loop asks for a token and the flat_map closure runs on the next
\* character.
ScanChar ==
    /\ pc = "run"
    /\ pending = <<>>
    /\ pos < Len(Chained(expr))
    /\ LET c == Chained(expr)[pos + 1]
           out == ClosureAtom(c, curr_token) \o ClosureParen(c)
       IN  /\ pending' = out
           /\ tokens' = tokens \o out
           /\ curr_token' = ClosureBuffer(c, curr_token)
    /\ pos' = pos + 1
    /\ UNCHANGED <<input, expr, contexts, pc, result, output, round, first>>

TakeLparen ==
    /\ pc = "run"
    /\ pending # <<>>
    /\ Head(pending).tag = "Lparen"
    /\ contexts' = ArmLparen(contexts)
    /\ pending' = Tail(pending)
    /\ UNCHANGED <<input, expr, pos, curr_token, tokens, pc, result, output, round, first>>

TakeRparen ==
    /\ pc = "run"
    /\ pending # <<>>
    /\ Head(pending).tag = "Rparen"
    /\ CanClose(contexts)
    /\ contexts' = ArmRparen(contexts)
    /\ pending' = Tail(pending)
    /\ UNCHANGED <<input, expr, pos, curr_token, tokens, pc, result, output, round, first>>

\* TakeRparenFail that notes the error and goes on with the loop.
TakeRparenFailLate ==
    /\ pc = "run"
    /\ pending # <<>>
    /\ Head(pending).tag = "Rparen"
    /\ ~CanClose(contexts)
    /\ result' = UnbalancedParen
    /\ pending' = Tail(pending)
    /\ UNCHANGED <<input, expr, pos, curr_token, tokens, contexts, pc, output, round, first>>

\* ensure!(contexts.len() >= 2, ...) returns the error; the iterator is dropped.
TakeRparenFail ==
    /\ pc = "run"
    /\ pending # <<>>
    /\ Head(pending).tag = "Rparen"
    /\ ~CanClose(contexts)
    /\ result' = UnbalancedParen
    /\ pc' = "done"
    /\ UNCHANGED <<input, expr, pos, curr_token, pending, tokens, contexts, output, round, first>>

TakeAtom ==
    /\ pc = "run"
    /\ pending # <<>>
    /\ Head(pending).tag = "Atom"
    /\ contexts' = ArmAtom(contexts, Head(pending).val)
    /\ pending' = Tail(pending)
    /\ UNCHANGED <<input, expr, pos, curr_token, tokens, pc, result, output, round, first>>

Exhausted == pc = "run" /\ pending = <<>> /\ pos = Len(Chained(expr))

EndUnclosed ==
    /\ Exhausted
    /\ ~AllClosed(contexts)
    /\ result' = UnclosedParen(UnclosedCount(contexts))
    /\ pc' = "done"
    /\ UNCHANGED <<input, expr, pos, curr_token, pending, tokens, contexts, output, round, first>>

EndWrongTopLevel ==
    /\ Exhausted
    /\ AllClosed(contexts)
    /\ ~OneTopLevel(Top(contexts))
    /\ result' = WrongTopLevelCount(Len(Top(contexts)))
    /\ contexts' = Pop(contexts)
    /\ pc' = "done"
    /\ UNCHANGED <<input, expr, pos, curr_token, pending, tokens, output, round, first>>

EndOk ==
    /\ Exhausted
    /\ AllClosed(contexts)
    /\ OneTopLevel(Top(contexts))
    /\ result' = Ok(Top(contexts)[Len(Top(contexts))])
    /\ contexts' = Pop(contexts)
    /\ pc' = "done"
    /\ UNCHANGED <<input, expr, pos, curr_token, pending, tokens, output, round, first>>

\* expr.to_string() on the tree a parse returned.
Render ==
    /\ pc = "done"
    /\ result.kind = "Ok"
    /\ output' = FmtExpr(result.val)
    /\ pc' = "rendered"
    /\ UNCHANGED <<input, expr, pos, curr_token, pending, tokens, contexts, result, round, first>>

\* parse() called again, on the rendered text.
Reparse ==
    /\ pc = "rendered"
    /\ round = 1
    /\ first' = result
    /\ round' = 2
    /\ expr' = output
    /\ pos' = 0
    /\ curr_token' = <<>>
    /\ pending' = <<>>
    /\ tokens' = <<>>
    /\ contexts' = << <<>> >>
    /\ result' = NoResult
    /\ pc' = "run"
    /\ UNCHANGED <<input, output>>

Next ==
    \/ ScanChar
    \/ TakeLparen
    \/ TakeRparen
    \/ TakeRparenFail
    \/ TakeAtom
    \/ EndUnclosed
    \/ EndWrongTopLevel
    \/ EndOk
    \/ Render
    \/ Reparse

Spec == Init /\ [][Next]_vars

----------------------------------------------------------------------------
(* Vocabulary of the properties: a reference reading of texts and token    *)
(* sequences, independent of the stack machine above.                      *)

\* How many of the first k elements of sequence s lie in set S.
RECURSIVE CountIn(_, _, _)
CountIn(s, k, S) ==
    IF k = 0 THEN 0
    ELSE CountIn(s, k - 1, S) + (IF s[k] \in S THEN 1 ELSE 0)

\* Nesting depth after the first k elements: opens minus closes.
Depth(s, k, open, close) == CountIn(s, k, {open}) - CountIn(s, k, {close})

\* Some prefix of s closes more than it opens.
ClosesTooMany(s, open, close) ==
    \E k \in 1..Len(s) : Depth(s, k, open, close) < 0

\* The number of top-level forms of a token sequence: the atoms and opening
\* parens met at depth 0.
TopLevelForms(toks) ==
    Cardinality({i \in 1..Len(toks) :
                    /\ toks[i] # Rparen
                    /\ Depth(toks, i - 1, Lparen, Rparen) = 0})

WellFormed(toks) ==
    /\ ~ClosesTooMany(toks, Lparen, Rparen)
    /\ Depth(toks, Len(toks), Lparen, Rparen) = 0
    /\ TopLevelForms(toks) = 1

\* The index of the Rparen that matches the Lparen at index i.
MatchOf(toks, i) ==
    CHOOSE j \in (i + 1)..Len(toks) :
        /\ Depth(toks, j, Lparen, Rparen) = Depth(toks, i - 1, Lparen, Rparen)
        /\ \A k \in i..(j - 1) :
              Depth(toks, k, Lparen, Rparen) > Depth(toks, i - 1, Lparen, Rparen)

\* The reference recursive parser: the expression that starts at index i, and
\* the expressions that lie from index i up to (not including) index stop.
RECURSIVE RefExpr(_, _)
RECURSIVE RefList(_, _, _)
RefExpr(toks, i) ==
    IF toks[i].tag = "Atom" THEN ExprAtom(toks[i].val)
    ELSE Group(RefList(toks, i + 1, MatchOf(toks, i)))

RefList(toks, i, stop) ==
    IF i >= stop THEN <<>>
    ELSE IF toks[i].tag = "Atom"
         THEN <<RefExpr(toks, i)>> \o RefList(toks, i + 1, stop)
         ELSE <<RefExpr(toks, i)>> \o RefList(toks, MatchOf(toks, i) + 1, stop)

RefParse(toks) == RefExpr(toks, 1)

\* A text in single-space form: every space stands between two siblings,
\* and two siblings are never adjacent without a space.
SingleSpaced(s) ==
    /\ \A i \in 1..Len(s) :
          s[i] = " " =>
              /\ 1 < i /\ i < Len(s)
              /\ s[i - 1] \notin {"(", " "}
              /\ s[i + 1] \notin {")", " "}
    /\ \A i \in 1..(Len(s) - 1) :
          /\ ~(s[i] = ")" /\ s[i + 1] \notin {")", " "})
          /\ ~(s[i] \notin {"(", " "} /\ s[i + 1] = "(")

\* Every expression of a tree: the tree itself and all its descendants.
RECURSIVE SubExprs(_)
SubExprs(e) ==
    IF e.tag = "Group"
    THEN {e} \cup UNION {SubExprs(e.val[i]) : i \in 1..Len(e.val)}
    ELSE {e}

\* Structural equality of two trees: same nesting, same child order, same
\* atom kinds and values.
RECURSIVE SameExpr(_, _)
SameExpr(a, b) ==
    /\ a.tag = b.tag
    /\ IF a.tag = "Group"
       THEN /\ Len(a.val) = Len(b.val)
            /\ \A i \in 1..Len(a.val) : SameExpr(a.val[i], b.val[i])
       ELSE /\ a.val.tag = b.val.tag
            /\ a.val.val = b.val.val

SameAtom(a, b) == a.tag = b.tag /\ a.val = b.val

\* A text of decimal digits only.
AllDigits(s) == s # <<>> /\ \A i \in 1..Len(s) : s[i] \in Digits

\* A digit text without its leading zeros (one digit is always kept).
RECURSIVE StripZeros(_)
StripZeros(s) ==
    IF Len(s) > 1 /\ s[1] = "0" THEN StripZeros(Tail(s)) ELSE s

\* a <= b for two digit texts of the same length.
RECURSIVE DigitsLeq(_, _)
DigitsLeq(a, b) ==
    IF a = <<>> THEN TRUE
    ELSE IF DigitVal(a[1]) # DigitVal(b[1]) THEN DigitVal(a[1]) < DigitVal(b[1])
    ELSE DigitsLeq(Tail(a), Tail(b))

\* 2^32 - 1 in decimal.
MaxU32Text == <<"4", "2", "9", "4", "9", "6", "7", "2", "9", "5">>

\* The value of digit text s is at most 2^32 - 1.
FitsU32(s) ==
    \/ Len(StripZeros(s)) < Len(MaxU32Text)
    \/ /\ Len(StripZeros(s)) = Len(MaxU32Text)
       /\ DigitsLeq(StripZeros(s), MaxU32Text)

\* The texts of a sequence joined by single spaces.
RECURSIVE JoinSp(_)
JoinSp(texts) ==
    IF texts = <<>> THEN <<>>
    ELSE IF Len(texts) = 1 THEN texts[1]
    ELSE JoinSp(SubSeq(texts, 1, Len(texts) - 1)) \o <<" ">> \o texts[Len(texts)]

\* An atom that carries a text: every Num does, an Ident unless its name is
\* empty.
HasText(a) == a.tag = "Ident" => a.val # <<>>

\* Result r is the error e.
IsErr(r, e) == r.kind = "Err" /\ r.val = e.val /\ r.n = e.n

\* Result r is Ok(e).
IsOk(r, e) == r.kind = "Ok" /\ SameExpr(r.val, e)

----------------------------------------------------------------------------
(* Properties *)

\* C1 (as claimed): round-trip. For every input that parse accepts and that
\* is in single-space form, the rendering of the parsed tree equals the
\* input character for character.
C1_RoundTrip ==
    (round = 1 /\ pc = "rendered" /\ SingleSpaced(input)) => output = input

\* C2: idempotence. For the tree e of a successful parse, parse(render(e))
\* succeeds and returns a tree equal to e.
C2_Idempotence ==
    (round = 2 /\ pc = "done") => (first.kind = "Ok" /\ IsOk(result, first.val))

\* C2's case: a second parse has returned for a tree with nested groups and
\* siblings whose rendering differs from the text it was first parsed from.
C2_Witness ==
    /\ round = 2 /\ pc = "done"
    /\ first.kind = "Ok" /\ first.val.tag = "Group"
    /\ Len(first.val.val) >= 2
    /\ \E i \in 1..Len(first.val.val) : first.val.val[i].tag = "Group"
    /\ output # input

\* C3: parse succeeds exactly when the token sequence never closes more than
\* it opened, opens and closes equally often and holds one top-level form;
\* the tree returned is the reference recursive parser's.
C3_ParseIsReference ==
    pc = "done" =>
        /\ result.kind = "Ok" <=> WellFormed(Tokenize(expr))
        /\ result.kind = "Ok" => SameExpr(result.val, RefParse(Tokenize(expr)))

\* C3's case: parse has returned a group that holds an atom and a non-empty
\* group.
C3_Witness ==
    /\ pc = "done" /\ result.kind = "Ok" /\ result.val.tag = "Group"
    /\ \E i, j \in 1..Len(result.val.val) :
          /\ result.val.val[i].tag = "Group" /\ result.val.val[i].val # <<>>
          /\ result.val.val[j].tag = "Atom"

\* C4: a RightParen taken while only the root context is on the stack makes
\* parse fail with UnbalancedParen; and so every input with a prefix holding
\* more ')' than '(' fails with UnbalancedParen.
C4_UnbalancedParen ==
    [][ /\ (pc = "run" /\ pending # <<>> /\ Head(pending) = Rparen /\ Len(contexts) = 1)
            => (pc' = "done" /\ IsErr(result', UnbalancedParen))
        /\ (pc' = "done" /\ ClosesTooMany(expr', "(", ")"))
            => IsErr(result', UnbalancedParen) ]_vars

\* C4's case: parse has failed on a ')' that follows a closed group.
C4_Witness ==
    /\ pc = "done" /\ IsErr(result, UnbalancedParen)
    /\ Len(tokens) >= 3
    /\ tokens[1] = Lparen

\* C5: when the tokens run out with more than one context on the stack,
\* parse fails with UnclosedParen(count), count being the stack size minus
\* one and the number of '(' minus the number of ')' of the input.
C5_UnclosedParen ==
    /\ (pc = "done" /\ ~IsErr(result, UnbalancedParen) /\ Len(contexts) > 1) =>
          /\ IsErr(result, UnclosedParen(Len(contexts) - 1))
          /\ Len(contexts) - 1 = Depth(expr, Len(expr), "(", ")")
    /\ (pc = "done" /\ ~ClosesTooMany(expr, "(", ")")
           /\ Depth(expr, Len(expr), "(", ")") > 0) =>
          IsErr(result, UnclosedParen(Depth(expr, Len(expr), "(", ")")))

\* C5's case: parse has failed with one context left open after an inner
\* group was closed, as on "(a (b)".
C5_Witness ==
    /\ pc = "done" /\ IsErr(result, UnclosedParen(1))
    /\ Len(contexts) = 2
    /\ \E i \in 1..Len(contexts[2]) : contexts[2][i].tag = "Group"

\* The rule of C6, with WS the characters taken as whitespace: when parse
\* returns for a paren-balanced input with n top-level forms, n # 1, it
\* fails with WrongTopLevelCount(n); an input of whitespace only (the empty
\* one included) gives n = 0.
TopLevelRule(WS) ==
    /\ (pc = "done" /\ ~ClosesTooMany(expr, "(", ")")
           /\ Depth(expr, Len(expr), "(", ")") = 0
           /\ TopLevelForms(Tokenize(expr)) # 1) =>
          IsErr(result, WrongTopLevelCount(TopLevelForms(Tokenize(expr))))
    /\ (pc = "done" /\ \A i \in 1..Len(expr) : expr[i] \in WS) =>
          IsErr(result, WrongTopLevelCount(0))

\* C6 (as claimed): every whitespace-only input, of spaces, tabs or
\* newlines, fails with WrongTopLevelCount(0).
C6_WhitespaceOnly == TopLevelRule({" ", "\t", "\n"})

\* C6 (amended): a paren-balanced input with n top-level forms, n # 1, fails
\* with WrongTopLevelCount(n); an input of spaces only (the empty one
\* included) gives n = 0.
C6_WrongTopLevelCount == TopLevelRule({" "})

\* C6's case: parse has failed on several top-level forms, one of them a
\* group.
C6_Witness ==
    /\ pc = "done" /\ result.kind = "Err" /\ result.n >= 2
    /\ IsErr(result, WrongTopLevelCount(result.n))
    /\ \E i \in 1..Len(tokens) : tokens[i] = Lparen

\* C7 (as claimed): a buffered text becomes Num(v) exactly when it holds
\* decimal digits only and its value v is at most 2^32 - 1; every other
\* text, any with a sign included, becomes Ident carrying the text unchanged.
C7_Classification ==
    [][ (pos' = pos + 1 /\ curr_token # <<>> /\ curr_token' = <<>>) =>
            LET a == Head(pending').val
            IN  IF AllDigits(curr_token) /\ FitsU32(curr_token)
                THEN a.tag = "Num" /\ DecimalDigits(a.val) = StripZeros(curr_token)
                ELSE a.tag = "Ident" /\ a.val = curr_token ]_vars

\* The rule of C8 for the scan of one character, with WS the characters
\* taken as whitespace: a paren or whitespace character met with a non-empty
\* buffer emits the buffer as one Atom token and clears the buffer; a
\* whitespace character emits no token of its own and is not in the buffer
\* afterwards.
ScanRule(WS) ==
    pos' = pos + 1 =>
        LET c == Chained(expr)[pos']
        IN  /\ (c \in {"(", ")"} \cup WS /\ curr_token # <<>>) =>
                  /\ pending' # <<>>
                  /\ Head(pending').tag = "Atom"
                  /\ SameAtom(Head(pending').val, AtomNew(curr_token))
                  /\ \A i \in 2..Len(pending') : pending'[i].tag # "Atom"
                  /\ curr_token' = <<>>
            /\ c \in WS =>
                  /\ Len(pending') = (IF curr_token # <<>> THEN 1 ELSE 0)
                  /\ \A i \in 1..Len(pending') : pending'[i].tag = "Atom"
                  /\ \A i \in 1..Len(curr_token') : curr_token'[i] # c

\* C8 (as claimed): space, tab and newline are all separators.
C8_WhitespaceSeparates == [][ScanRule({" ", "\t", "\n"})]_vars

\* C8 (amended): the space is the only whitespace separator.
C8_SpaceSeparates == [][ScanRule({" "})]_vars

\* C8's case: a space was scanned after a buffered text that holds a tab; the
\* text was emitted as one atom, the tab kept in it, and the buffer is empty.
C8_Witness ==
    /\ pos >= 3 /\ pos <= Len(expr)
    /\ expr[pos] = " "
    /\ expr[pos - 1] \notin {"(", ")", " "}
    /\ \E i \in 1..(pos - 1) : expr[i] = "\t"
    /\ curr_token = <<>>
    /\ pending # <<>> /\ Head(pending).tag = "Atom"
    /\ Head(pending).val.tag = "Ident"
    /\ \E i \in 1..Len(Head(pending).val.val) : Head(pending).val.val[i] = "\t"

\* C9: a Group renders as '(' , its children's renderings in order joined
\* by one space, ')'; the empty Group as "()", which is what "()" parses
\* to; an Ident as its text; a Num as its decimal digits, without leading
\* zeros or sign.
C9_Rendering ==
    /\ pc = "rendered" =>
          /\ output = FmtExpr(result.val)
          /\ \A e \in SubExprs(result.val) :
                /\ e.tag = "Group" =>
                      FmtExpr(e) = <<"(">> \o JoinSp([i \in 1..Len(e.val) |-> FmtExpr(e.val[i])])
                                       \o <<")">>
                /\ (e.tag = "Group" /\ e.val = <<>>) => FmtExpr(e) = <<"(", ")">>
                /\ (e.tag = "Atom" /\ e.val.tag = "Ident") => FmtExpr(e) = e.val.val
                /\ (e.tag = "Atom" /\ e.val.tag = "Num") =>
                      /\ AllDigits(FmtExpr(e))
                      /\ StripZeros(FmtExpr(e)) = FmtExpr(e)
                      /\ ParseDigits(FmtExpr(e), 1, <<0, 0>>) = e.val.val
    /\ (pc \in {"done", "rendered"} /\ expr = <<"(", ")">>) => IsOk(result, Group(<<>>))
    /\ (pc = "rendered" /\ expr = <<"(", ")">>) => output = <<"(", ")">>

\* C9's case: a group of several children was rendered, among them a number
\* of two digits or more written with a sign or leading zeros in the input.
C9_Witness ==
    /\ pc = "rendered" /\ round = 1
    /\ result.val.tag = "Group" /\ Len(result.val.val) >= 2
    /\ \E i \in 1..Len(result.val.val) :
          /\ result.val.val[i].tag = "Atom"
          /\ result.val.val[i].val.tag = "Num"
          /\ Len(FmtExpr(result.val.val[i])) >= 2
    /\ output # input

\* C10: no Atom token the tokenizer emits has an empty text, so no Atom of a
\* tree that parse returns has one.
C10_NoEmptyAtom ==
    /\ \A i \in 1..Len(tokens) : tokens[i].tag = "Atom" => HasText(tokens[i].val)
    /\ \A i \in 1..Len(pending) : pending[i].tag = "Atom" => HasText(pending[i].val)
    /\ result.kind = "Ok" =>
          \A e \in SubExprs(result.val) : e.tag = "Atom" => HasText(e.val)

\* C10's case: parse has returned a tree with an atom for an input with
\* two separators in a row.
C10_Witness ==
    /\ pc = "done" /\ result.kind = "Ok"
    /\ \E i \in 1..Len(tokens) : tokens[i].tag = "Atom"
    /\ \E i \in 1..(Len(expr) - 1) :
          expr[i] \in {"(", ")", " "} /\ expr[i + 1] \in {"(", ")", " "}

\* The tokens the for loop has taken: those yielded, less those pending.
Taken == SubSeq(tokens, 1, Len(tokens) - Len(pending))

\* The length of the shortest prefix of s that closes more than it opens.
FirstExcess(s, open, close) ==
    CHOOSE k \in 1..Len(s) :
        /\ Depth(s, k, open, close) < 0
        /\ \A j \in 1..(k - 1) : Depth(s, j, open, close) >= 0

\* C11: UnbalancedParen is terminal and reported at the first offending
\* token. No step leaves a failed parse; the tokens taken never close more
\* than they opened (the ')' that would is not taken and nothing after it
\* is); and an input with a prefix of more ')' than '(' ends in
\* UnbalancedParen with the scan stopped at the first such ')', whatever
\* follows it, and with no tree returned.
C11_UnbalancedIsTerminal ==
    [][ /\ ~(pc = "done" /\ result.kind = "Err")
        /\ ~ClosesTooMany(Taken', Lparen, Rparen)
        /\ (pc' = "done" /\ ClosesTooMany(expr', "(", ")")) =>
              /\ IsErr(result', UnbalancedParen)
              /\ pos' = FirstExcess(expr', "(", ")")
              /\ Head(pending') = Rparen
              /\ Len(contexts') = 1 ]_vars

\* C11's case: parse has failed with UnbalancedParen on an input that goes
\* on after the offending ')' with an '(' never closed and further
\* top-level forms.
C11_Witness ==
    /\ pc = "done" /\ IsErr(result, UnbalancedParen)
    /\ pos + 2 <= Len(expr)
    /\ \E i \in (pos + 1)..Len(expr) : expr[i] = "("
    /\ \E i \in (pos + 1)..Len(expr) : expr[i] \notin {"(", ")", " "}

\* C12: while parse_tokens consumes tokens the stack holds at least one
\* context, so contexts.last_mut().unwrap() and contexts.pop().unwrap() find
\* what they ask for: the top context exists when an atom is pushed, and a
\* context is left under the one a RightParen pops.
C12_StackNeverEmpty ==
    pc = "run" =>
        /\ Len(contexts) >= 1
        /\ (pending # <<>> /\ Head(pending).tag = "Rparen" /\ CanClose(contexts)) =>
              Len(Pop(contexts)) >= 1

\* C12's case: the loop runs with the stack back at the root context alone
\* after a group was closed, and a further ')' is pending.
C12_Witness ==
    /\ pc = "run" /\ Len(contexts) = 1
    /\ \E i \in 1..Len(contexts[1]) : contexts[1][i].tag = "Group"
    /\ pending # <<>> /\ Head(pending).tag = "Rparen"

\* Two contexts hold structurally equal expressions in the same order.
SameContext(a, b) ==
    /\ Len(a) = Len(b)
    /\ \A i \in 1..Len(a) : SameExpr(a[i], b[i])

\* C13: each token taken changes the stack in one way and leaves the rest
\* alone. LeftParen pushes one empty context over the unchanged ones; Atom
\* appends one element to the top context, depth and lower contexts kept; a
\* RightParen that closes lowers the depth by one and appends one Group, of
\* the popped context's elements in order, to the new top, whose earlier
\* elements and all contexts below stay as they were.
C13_OneStackOperation ==
    [][ (pending # <<>> /\ pending' = Tail(pending)) =>
            LET t == Head(pending)
                n == Len(contexts)
            IN  /\ t.tag = "Lparen" =>
                      /\ Len(contexts') = n + 1
                      /\ contexts'[n + 1] = <<>>
                      /\ \A i \in 1..n : SameContext(contexts'[i], contexts[i])
                /\ t.tag = "Atom" =>
                      /\ Len(contexts') = n
                      /\ \A i \in 1..(n - 1) : SameContext(contexts'[i], contexts[i])
                      /\ Len(contexts'[n]) = Len(contexts[n]) + 1
                      /\ SameContext(SubSeq(contexts'[n], 1, Len(contexts[n])), contexts[n])
                      /\ SameExpr(contexts'[n][Len(contexts'[n])], ExprAtom(t.val))
                /\ t.tag = "Rparen" =>
                      /\ Len(contexts') = n - 1
                      /\ \A i \in 1..(n - 2) : SameContext(contexts'[i], contexts[i])
                      /\ Len(contexts'[n - 1]) = Len(contexts[n - 1]) + 1
                      /\ SameContext(SubSeq(contexts'[n - 1], 1, Len(contexts[n - 1])),
                                     contexts[n - 1])
                      /\ SameExpr(contexts'[n - 1][Len(contexts'[n - 1])],
                                  Group(contexts[n])) ]_vars

\* C13's case: a RightParen has just closed a context of two elements or
\* more into a Group, appended to a parent that already held an element,
\* with a further context below the parent.
C13_Witness ==
    /\ pc = "run" /\ Len(contexts) >= 2
    /\ Len(Taken) >= 1 /\ Taken[Len(Taken)] = Rparen
    /\ Len(Top(contexts)) >= 2
    /\ Top(contexts)[Len(Top(contexts))].tag = "Group"
    /\ Len(Top(contexts)[Len(Top(contexts))].val) >= 2

SameToken(a, b) ==
    /\ a.tag = b.tag
    /\ a.tag = "Atom" => SameAtom(a.val, b.val)

\* Token sequence a is the first Len(a) tokens of b.
TokenPrefix(a, b) ==
    /\ Len(a) <= Len(b)
    /\ \A i \in 1..Len(a) : SameToken(a[i], b[i])

\* The last index of the run of non-separator characters that starts at i.
RunEnd(s, i) ==
    CHOOSE j \in i..Len(s) :
        /\ \A k \in i..j : s[k] \notin {"(", ")", " "}
        /\ j = Len(s) \/ s[j + 1] \in {"(", ")", " "}

\* The reference reading of a text from index i on, left to right: a token
\* per paren, a token per maximal run of other characters, none per space.
RECURSIVE RefTokensFrom(_, _)
RefTokensFrom(s, i) ==
    IF i > Len(s) THEN <<>>
    ELSE IF s[i] = "(" THEN <<Lparen>> \o RefTokensFrom(s, i + 1)
    ELSE IF s[i] = ")" THEN <<Rparen>> \o RefTokensFrom(s, i + 1)
    ELSE IF s[i] = " " THEN RefTokensFrom(s, i + 1)
    ELSE <<TokenAtom(AtomNew(SubSeq(s, i, RunEnd(s, i))))>>
             \o RefTokensFrom(s, RunEnd(s, i) + 1)

RefTokens(s) == RefTokensFrom(s, 1)

\* C14: token order and trailing flush. A paren that ends a pending atom
\* yields the Atom token and then the paren's token; the tokens yielded are
\* at all times the first tokens of the input's left-to-right reading; and
\* when the scan has run to the end the buffer is empty and the tokens are
\* the whole reading, an atom that runs to the end of the input being the
\* last of them.
C14_TokenOrder ==
    [][ /\ (pos' = pos + 1 /\ Chained(expr)[pos'] \in {"(", ")"} /\ curr_token # <<>>) =>
              /\ Len(pending') = 2
              /\ pending'[1].tag = "Atom"
              /\ SameAtom(pending'[1].val, AtomNew(curr_token))
              /\ pending'[2].tag = (IF Chained(expr)[pos'] = "(" THEN "Lparen" ELSE "Rparen")
              /\ Len(tokens') = Len(tokens) + 2
              /\ TokenPrefix(tokens, tokens')
              /\ SameToken(tokens'[Len(tokens') - 1], pending'[1])
              /\ SameToken(tokens'[Len(tokens')], pending'[2])
        /\ TokenPrefix(tokens', RefTokens(expr'))
        /\ (pc' \in {"done", "rendered"} /\ ~IsErr(result', UnbalancedParen)) =>
              /\ curr_token' = <<>>
              /\ Len(tokens') = Len(RefTokens(expr'))
              /\ (expr' # <<>> /\ expr'[Len(expr')] \notin {"(", ")", " "}) =>
                    /\ tokens' # <<>>
                    /\ tokens'[Len(tokens')].tag = "Atom" ]_vars

\* C14's case: the scan has ended on an atom that runs to the end of the
\* input, after an earlier atom that a paren ended.
C14_Witness ==
    /\ pc = "done" /\ ~IsErr(result, UnbalancedParen)
    /\ Len(expr) >= 3
    /\ expr[Len(expr)] \notin {"(", ")", " "}
    /\ \E i \in 1..(Len(expr) - 2) :
          expr[i] \notin {"(", ")", " "} /\ expr[i + 1] \in {"(", ")"}
    /\ tokens[Len(tokens)].tag = "Atom"

\* C15: error precedence at the end of the input. When the tokens ran out
\* without UnbalancedParen, contexts are still open and the root context
\* does not hold exactly one expression, the failure is UnclosedParen(count)
\* and not WrongTopLevelCount; WrongTopLevelCount is reported only for an
\* input whose parens all closed, the stack back at the root context.
C15_UnclosedBeforeTopLevel ==
    /\ (pc = "done" /\ ~IsErr(result, UnbalancedParen)
           /\ Len(contexts) > 1 /\ Len(contexts[1]) # 1) =>
          /\ IsErr(result, UnclosedParen(Len(contexts) - 1))
          /\ ~IsErr(result, WrongTopLevelCount(result.n))
    /\ (pc = "done" /\ ~ClosesTooMany(expr, "(", ")")
           /\ Depth(expr, Len(expr), "(", ")") > 0) =>
          IsErr(result, UnclosedParen(result.n))
    /\ (pc = "done" /\ IsErr(result, WrongTopLevelCount(result.n))) =>
          /\ Depth(expr, Len(expr), "(", ")") = 0
          /\ ~ClosesTooMany(expr, "(", ")")

\* C15's case: parse has failed with UnclosedParen while the root context
\* held two expressions or more.
C15_Witness ==
    /\ pc = "done" /\ IsErr(result, UnclosedParen(result.n))
    /\ Len(contexts) > 1
    /\ Len(contexts[1]) >= 2

SameTokens(a, b) == Len(a) = Len(b) /\ TokenPrefix(a, b)

\* Two results are the same error, or structurally equal trees.
SameResult(r, q) ==
    /\ r.kind = q.kind
    /\ r.kind = "Ok" => SameExpr(r.val, q.val)
    /\ r.kind = "Err" => (r.val = q.val /\ r.n = q.n)

\* Space k of text s is redundant: it leads or trails, or stands next to a
\* paren or another space.
RedundantAt(s, k) ==
    \/ k = 1
    \/ k = Len(s)
    \/ s[k - 1] \in {"(", ")", " "}
    \/ s[k + 1] \in {"(", ")", " "}

\* The texts that differ from s by one redundant space: one more (in front,
\* at the end, or next to a paren or a space) or one less.
Respacings(s) ==
    {SubSeq(s, 1, k) \o <<" ">> \o SubSeq(s, k + 1, Len(s)) :
        k \in {j \in 0..Len(s) :
                  \/ j = 0
                  \/ j = Len(s)
                  \/ s[j] \in {"(", ")", " "}
                  \/ s[j + 1] \in {"(", ")", " "}}}
    \cup
    {SubSeq(s, 1, k - 1) \o SubSeq(s, k + 1, Len(s)) :
        k \in {j \in 1..Len(s) : s[j] = " " /\ RedundantAt(s, j)}}

\* C16: redundant spaces do not affect the result. Every text that differs
\* from the input by a redundant space has the input's token sequence and
\* parses to the input's outcome, the same error or a structurally equal
\* tree; and the rendering of the parsed tree is in single-space form and
\* has the input's token sequence.
C16_SpacesDoNotMatter ==
    /\ pc \in {"done", "rendered"} =>
          \A y \in Respacings(expr) :
              /\ SameTokens(Tokenize(y), Tokenize(expr))
              /\ SameResult(Parse(y), result)
    /\ pc = "rendered" =>
          /\ SingleSpaced(output)
          /\ SameTokens(Tokenize(output), Tokenize(expr))

\* C16's case: a tree was rendered for an input with leading, trailing and
\* paren-adjacent spaces, and the rendering differs from the input.
C16_Witness ==
    /\ pc = "rendered" /\ round = 1
    /\ Len(input) >= 3
    /\ input[1] = " " /\ input[Len(input)] = " "
    /\ \E i \in 2..(Len(input) - 1) : input[i] = " " /\ input[i - 1] = "("
    /\ output # input

\* A text free of '(' , ')' and ' '.
ParenSpaceFree(s) == \A i \in 1..Len(s) : s[i] \notin {"(", ")", " "}

\* The text an atom stands for: an Ident's name, a Num's digits.
AtomText(a) == IF a.tag = "Ident" THEN a.val ELSE DecimalDigits(a.val)

\* C17: the tokenizer's buffer never holds '(' , ')' or ' ', so no Atom
\* token's text and no Identifier of a tree that parse returns contains one
\* of them.
C17_NoSeparatorInAtom ==
    /\ ParenSpaceFree(curr_token)
    /\ \A i \in 1..Len(tokens) :
          tokens[i].tag = "Atom" => ParenSpaceFree(AtomText(tokens[i].val))
    /\ result.kind = "Ok" =>
          \A e \in SubExprs(result.val) :
              e.tag = "Atom" => ParenSpaceFree(AtomText(e.val))

\* C17's case: parse has returned a tree with an Identifier of two
\* characters or more for an input that holds '(' , ')' and ' '.
C17_Witness ==
    /\ pc = "done" /\ result.kind = "Ok"
    /\ \A c \in {"(", ")", " "} : \E i \in 1..Len(expr) : expr[i] = c
    /\ \E e \in SubExprs(result.val) :
          e.tag = "Atom" /\ e.val.tag = "Ident" /\ Len(e.val.val) >= 2

====
